---- MODULE Spec2Model ----
(***************************************************************************)
(* The rewrite-rule layer of the equality-saturation engine                *)
(* (src/src/rewrite.rs): RewriteBuilder, Rewrite::search, Rewrite::apply   *)
(* and Condition::check, over a small e-graph and pattern collaborator.    *)
(***************************************************************************)
EXTENDS Integers, Sequences, FiniteSets, TLC

(***************************************************************************)
(* Bounds of the model.                                                    *)
(***************************************************************************)
\* number of builder operations performed on one RewriteBuilder
MaxBuilderOps == 4
\* number of Rewrite::apply calls the driver makes on one graph
MaxApplyCalls == 2

\* RewriteBuilder::new: application_limit: 10_000
DefaultLimit == 10000

(***************************************************************************)
(* The e-graph collaborator (crate::EGraph): ids are 1..Len(g.nodes);      *)
(* g.nodes[i] is the e-node whose insertion created id i, g.leader[i] is   *)
(* the canonical id of i's class.                                          *)
(***************************************************************************)
ENode(op, children) == [op |-> op, children |-> children]

Leaf(op) == ENode(op, <<>>)

EmptyGraph == [nodes |-> <<>>, leader |-> <<>>]

Ids(g) == 1..Len(g.nodes)

\* canonical-id lookup
Find(g, id) == g.leader[id]

Equiv(g, a, b) == Find(g, a) = Find(g, b)

MinOf(S) == CHOOSE x \in S : \A y \in S : x <= y

RECURSIVE CanonSeq(_, _)
CanonSeq(g, ids) ==
    IF ids = <<>> THEN <<>>
    ELSE <<Find(g, Head(ids))>> \o CanonSeq(g, Tail(ids))

Canonicalize(g, n) == ENode(n.op, CanonSeq(g, n.children))

\* add(term) -> (id, was_new): insert or deduplicate a term
Add(g, n0) ==
    LET n == Canonicalize(g, n0)
        hits == {i \in Ids(g) : g.nodes[i] = n}
        fresh == Len(g.nodes) + 1
    IN  IF hits # {}
        THEN [egraph |-> g, id |-> Find(g, MinOf(hits)), was_added |-> FALSE]
        ELSE [egraph |-> [nodes |-> Append(g.nodes, n),
                          leader |-> Append(g.leader, fresh)],
              id |-> fresh, was_added |-> TRUE]

\* union(id, id) -> id: merge two classes, returning the new leader id.
\* Which of the two roots leads is the collaborator's choice: keepFirst.
Union(g, id1, id2, keepFirst) ==
    LET root1 == Find(g, id1)
        root2 == Find(g, id2)
        to == IF keepFirst THEN root1 ELSE root2
        from == IF keepFirst THEN root2 ELSE root1
    IN  IF root1 = root2
        THEN [egraph |-> g, id |-> root1]
        ELSE [egraph |-> [g EXCEPT !.leader =
                            [i \in Ids(g) |-> IF g.leader[i] = from THEN to
                                              ELSE g.leader[i]]],
              id |-> to]

\* pairs of ids whose e-nodes are congruent but whose classes differ
Congruent(g) ==
    {pr \in Ids(g) \X Ids(g) :
        /\ pr[1] < pr[2]
        /\ Canonicalize(g, g.nodes[pr[1]]) = Canonicalize(g, g.nodes[pr[2]])
        /\ ~Equiv(g, pr[1], pr[2])}

\* rebuild(): restores the congruence invariant after a batch of unions
RECURSIVE Rebuild(_)
Rebuild(g) ==
    LET canon == [g EXCEPT !.nodes =
                    [i \in Ids(g) |-> Canonicalize(g, g.nodes[i])]]
        bad == Congruent(canon)
    IN  IF bad = {} THEN canon
        ELSE LET pr == CHOOSE p \in bad :
                          \A q \in bad : p[1] < q[1] \/ (p[1] = q[1] /\ p[2] <= q[2])
             IN  Rebuild(Union(canon, pr[1], pr[2], TRUE).egraph)

(***************************************************************************)
(* The pattern collaborator (crate::Pattern, SearchMatches, WildMap).      *)
(* A pattern is a wildcard [wild |-> name] or an e-node over patterns; a   *)
(* mapping binds wildcard names to ids.                                    *)
(***************************************************************************)
Wild(name) == [wild |-> name]

PNode(op, children) == [op |-> op, children |-> children]

IsWild(p) == "wild" \in DOMAIN p

EmptyMapping == [v \in {} |-> 0]

Bind(name, id) == [v \in {name} |-> id]

Compatible(m1, m2) == \A v \in DOMAIN m1 \cap DOMAIN m2 : m1[v] = m2[v]

Merge(m1, m2) ==
    [v \in DOMAIN m1 \cup DOMAIN m2 |-> IF v \in DOMAIN m1 THEN m1[v] ELSE m2[v]]

\* the element of a one-element set: The({e(x) : x \in {v}}) is e(v) with v
\* computed once, where LET x == v IN e(x) computes v at every use of x
The(S) == CHOOSE v \in S : TRUE

\* pattern.instantiate_and_find(graph, mapping) -> id: materialises the
\* instantiated term (inserting missing subterms) and returns its canonical id
RECURSIVE subst_and_find(_, _, _)
RECURSIVE SubstChildren(_, _, _)
subst_and_find(g, p, mapping) ==
    IF IsWild(p)
    THEN [egraph |-> g, id |-> Find(g, mapping[p.wild])]
    ELSE The({The({[egraph |-> added.egraph, id |-> added.id] :
                      added \in {Add(kids.egraph, ENode(p.op, kids.ids))}}) :
              kids \in {SubstChildren(g, p.children, mapping)}})

SubstChildren(g, pats, mapping) ==
    IF pats = <<>> THEN [egraph |-> g, ids |-> <<>>]
    ELSE The({The({[egraph |-> r.egraph, ids |-> <<h.id>> \o r.ids] :
                      r \in {SubstChildren(h.egraph, Tail(pats), mapping)}}) :
              h \in {subst_and_find(g, Head(pats), mapping)}})

\* the distinct canonical e-nodes of class c, in id order, from id i on
RECURSIVE ClassNodes(_, _, _, _)
ClassNodes(g, c, i, seen) ==
    IF i > Len(g.nodes) THEN <<>>
    ELSE LET n == Canonicalize(g, g.nodes[i])
         IN  IF Find(g, i) = c /\ n \notin seen
             THEN <<n>> \o ClassNodes(g, c, i + 1, seen \cup {n})
             ELSE ClassNodes(g, c, i + 1, seen)

RECURSIVE MergeOne(_, _)
MergeOne(m1, ms2) ==
    IF ms2 = <<>> THEN <<>>
    ELSE (IF Compatible(m1, Head(ms2)) THEN <<Merge(m1, Head(ms2))>> ELSE <<>>)
         \o MergeOne(m1, Tail(ms2))

RECURSIVE CrossMerge(_, _)
CrossMerge(ms1, ms2) ==
    IF ms1 = <<>> THEN <<>>
    ELSE MergeOne(Head(ms1), ms2) \o CrossMerge(Tail(ms1), ms2)

\* the mappings under which pattern p matches class c
RECURSIVE MatchClass(_, _, _)
RECURSIVE MatchChildren(_, _, _)
RECURSIVE MatchNodes(_, _, _)
MatchClass(g, p, c) ==
    IF IsWild(p) THEN <<Bind(p.wild, c)>>
    ELSE MatchNodes(g, p, ClassNodes(g, c, 1, {}))

MatchNodes(g, p, ns) ==
    IF ns = <<>> THEN <<>>
    ELSE (IF Head(ns).op = p.op /\ Len(Head(ns).children) = Len(p.children)
          THEN MatchChildren(g, p.children, Head(ns).children)
          ELSE <<>>)
         \o MatchNodes(g, p, Tail(ns))

MatchChildren(g, pats, ids) ==
    IF pats = <<>> THEN <<EmptyMapping>>
    ELSE CrossMerge(MatchClass(g, Head(pats), Find(g, Head(ids))),
                    MatchChildren(g, Tail(pats), Tail(ids)))

\* pattern.search(graph) -> sequence of (class id, sequence of mapping),
\* classes in ascending order of canonical id, from id c on
RECURSIVE PatternSearch(_, _, _)
PatternSearch(g, p, c) ==
    IF c > Len(g.nodes) THEN <<>>
    ELSE LET ms == IF Find(g, c) = c THEN MatchClass(g, p, c) ELSE <<>>
         IN  (IF ms = <<>> THEN <<>> ELSE <<[eclass |-> c, mappings |-> ms]>>)
             \o PatternSearch(g, p, c + 1)

Search(p, g) == PatternSearch(g, p, 1)

(***************************************************************************)
(* Appliers (trait Applier): the pattern-as-applier, and two computed      *)
(* appliers: tests::fn_rewrite's Appender and one that materialises a      *)
(* list of patterns (zero or more result ids).                             *)
(***************************************************************************)
PatternApplier(p) == [kind |-> "pattern", patterns |-> <<p>>]

ManyApplier(ps) == [kind |-> "many", patterns |-> ps]

Appender == [kind |-> "appender", patterns |-> <<>>]

\* get(egraph, id) of tests::fn_rewrite: the operator of the class's first e-node
Get(g, id) == g.nodes[Find(g, id)].op

RECURSIVE ApplyPatterns(_, _, _)
ApplyPatterns(g, ps, mapping) ==
    IF ps = <<>> THEN [egraph |-> g, results |-> <<>>]
    ELSE The({The({[egraph |-> r.egraph, results |-> <<h.id>> \o r.results] :
                      r \in {ApplyPatterns(h.egraph, Tail(ps), mapping)}}) :
              h \in {subst_and_find(g, Head(ps), mapping)}})

\* Appender::apply of tests::fn_rewrite: inserts the concatenation of the two
\* matched operators as a leaf
AppenderApply(g, mapping) ==
    LET added == Add(g, Leaf(Get(g, mapping["?a"]) \o Get(g, mapping["?b"])))
    IN  [egraph |-> added.egraph, results |-> <<added.id>>]

\* Applier::apply(egraph, mapping) -> Vec<AddResult> (the ids)
ApplierApply(applier, g, mapping) ==
    IF applier.kind = "appender" THEN AppenderApply(g, mapping)
    ELSE ApplyPatterns(g, applier.patterns, mapping)


(***************************************************************************)
(* RewriteBuilder and Rewrite (rewrite.rs 11-111).                         *)
(***************************************************************************)
Condition(lhs, rhs) == [lhs |-> lhs, rhs |-> rhs]

\* RewriteBuilder::new
New(name) ==
    [name |-> name, patterns |-> <<>>, appliers |-> <<>>, conditions |-> <<>>,
     application_limit |-> DefaultLimit]

\* a push to the front of the list
with_pattern_Prepend(b, pattern) == [b EXCEPT !.patterns = <<pattern>> \o @]

\* self.patterns.push(pattern)
with_pattern(b, pattern) == [b EXCEPT !.patterns = Append(@, pattern)]

with_applier(b, applier) == [b EXCEPT !.appliers = Append(@, applier)]

with_condition(b, condition) == [b EXCEPT !.conditions = Append(@, condition)]

with_application_limit(b, application_limit) ==
    [b EXCEPT !.application_limit = application_limit]

\* the outcomes of a call: a returned Ok(value), a returned Err, or a panic
Ok(value) == [tag |-> "Ok", value |-> value]

Panic == [tag |-> "Panic"]

\* no call made yet / no value yet
None == [tag |-> "None"]

\* build that forgets the builder's limit and leaves the default
build_DefaultLimit(b) ==
    IF Len(b.patterns) = 0 THEN Panic
    ELSE IF Len(b.appliers) = 0 THEN Panic
    ELSE Ok([name |-> b.name, patterns |-> b.patterns, appliers |-> b.appliers,
             conditions |-> b.conditions,
             application_limit |-> DefaultLimit])

\* RewriteBuilder::build: the two assert_ne! abort the call on an empty list
build(b) ==
    IF Len(b.patterns) = 0 THEN Panic
    ELSE IF Len(b.appliers) = 0 THEN Panic
    ELSE Ok([name |-> b.name, patterns |-> b.patterns, appliers |-> b.appliers,
             conditions |-> b.conditions,
             application_limit |-> b.application_limit])

\* RewriteBuilder::mk: build().unwrap()
mk(b) == LET r == build(b) IN IF r.tag = "Ok" THEN r.value ELSE Panic

(***************************************************************************)
(* Rewrite::search and Condition::check.                                   *)
(***************************************************************************)
\* search that drops a later pattern's match of an already matched class
RECURSIVE search_Dedup(_, _)
search_Dedup(patterns, g) ==
    IF patterns = <<>> THEN <<>>
    ELSE LET first == Search(Head(patterns), g)
             seen == {first[i].eclass : i \in 1..Len(first)}
         IN  first \o SelectSeq(search_Dedup(Tail(patterns), g),
                                LAMBDA m : m.eclass \notin seen)

\* self.patterns.iter().flat_map(|p| p.search(egraph)).collect()
RECURSIVE search(_, _)
search(patterns, g) ==
    IF patterns = <<>> THEN <<>>
    ELSE Search(Head(patterns), g) \o search(Tail(patterns), g)

\* check that instantiates its lhs only and looks its rhs up without
\* inserting it (id 0: not found)
check_LhsOnly(c, g, mapping) ==
    LET lhs == subst_and_find(g, c.lhs, mapping)
        rhs == subst_and_find(lhs.egraph, c.rhs, mapping)
        found == rhs.egraph = lhs.egraph
    IN  [egraph |-> lhs.egraph, ok |-> found /\ lhs.id = rhs.id,
         lhs_id |-> lhs.id, rhs_id |-> IF found THEN rhs.id ELSE 0]

\* check with the comparison negated
check_Negated(c, g, mapping) ==
    LET lhs == subst_and_find(g, c.lhs, mapping)
        rhs == subst_and_find(lhs.egraph, c.rhs, mapping)
    IN  [egraph |-> rhs.egraph, ok |-> lhs.id # rhs.id,
         lhs_id |-> lhs.id, rhs_id |-> rhs.id]

\* check that instantiates both sides and accepts without comparing
check_Always(c, g, mapping) ==
    LET lhs == subst_and_find(g, c.lhs, mapping)
        rhs == subst_and_find(lhs.egraph, c.rhs, mapping)
    IN  [egraph |-> rhs.egraph, ok |-> TRUE,
         lhs_id |-> lhs.id, rhs_id |-> rhs.id]

\* Condition::check: both sides are instantiated, then compared
check(c, g, mapping) ==
    The({The({[egraph |-> rhs.egraph, ok |-> lhs.id = rhs.id,
               lhs_id |-> lhs.id, rhs_id |-> rhs.id] :
                 rhs \in {subst_and_find(lhs.egraph, c.rhs, mapping)}}) :
         lhs \in {subst_and_find(g, c.lhs, mapping)}})

(***************************************************************************)
(* The terms of the tests (rewrite.rs 205-283) and the inputs drawn from   *)
(* them.                                                                   *)
(***************************************************************************)
WA == Wild("?a")
WB == Wild("?b")
TermX == PNode("x", <<>>)
TermY == PNode("y", <<>>)
Term2 == PNode("2", <<>>)
TermTrue == PNode("TRUE", <<>>)
TermMul == PNode("*", <<TermX, Term2>>)
TermMulRev == PNode("*", <<Term2, TermX>>)
TermAdd == PNode("+", <<TermX, TermY>>)
TermIsPow2 == PNode("is-power2", <<Term2>>)

PatMul == PNode("*", <<WA, WB>>)
PatAdd == PNode("+", <<WA, WB>>)
PatMulRev == PNode("*", <<WB, WA>>)
PatShift == PNode(">>", <<WA, PNode("log2", <<WB>>)>>)
PatIsPow2 == PNode("is-power2", <<WB>>)

CondPow2 == Condition(PatIsPow2, TermTrue)
\* the product is known to commute: (* ?a ?b) == (* ?b ?a)
CondComm == Condition(PatMul, PatMulRev)

\* egraph.add_expr / a run of egraph.add calls on ground terms
RECURSIVE add_exprs(_, _)
add_exprs(g, terms) ==
    IF terms = <<>> THEN g
    ELSE add_exprs(subst_and_find(g, Head(terms), EmptyMapping).egraph, Tail(terms))

\* the graphs the tests start from, one with two product classes, and one
\* where the driver has already merged and rebuilt the two
GraphConditional == add_exprs(EmptyGraph, <<TermX, Term2, TermMul, TermTrue>>)
GraphFn == add_exprs(EmptyGraph, <<TermAdd>>)
GraphTwoMul == add_exprs(EmptyGraph, <<TermMul, TermMulRev>>)
GraphMerged == Rebuild(Union(GraphTwoMul, 3, 4, TRUE).egraph)

InitialGraphs == {GraphConditional, GraphFn, GraphTwoMul, GraphMerged}

\* equalities the driver may teach the graph between calls
\* (tests::conditional_rewrite, rewrite.rs 236-237)
Facts == {<<TermIsPow2, TermTrue>>}

Names == {"mul_to_shift"}
\* the names the tests construct builders with
BuilderNames == {"mul_to_shift", "fold_add"}
PatternArgs == {PatMul, PatMulRev, PatAdd}
ApplierArgs == {PatternApplier(PatShift), PatternApplier(PatMulRev), Appender,
                ManyApplier(<<PatMul, PatShift, PatMulRev>>), ManyApplier(<<>>)}
ConditionArgs == {CondPow2, CondComm}
LimitArgs == {0, 1}


\* a builder call, as data, and a run of them on a fresh builder
Call(op, arg) == [op |-> op, arg |-> arg]

BuilderCall(b, call) ==
    CASE call.op = "with_pattern" -> with_pattern(b, call.arg)
      [] call.op = "with_applier" -> with_applier(b, call.arg)
      [] call.op = "with_condition" -> with_condition(b, call.arg)
      [] call.op = "with_application_limit" -> with_application_limit(b, call.arg)

RECURSIVE Configure(_, _)
Configure(b, calls) ==
    IF calls = <<>> THEN b
    ELSE Configure(BuilderCall(b, Head(calls)), Tail(calls))

\* the rules the driver runs: every one is built through the builder
ShiftApplier == PatternApplier(PatShift)
CommApplier == PatternApplier(PatMulRev)
SeveralApplier == ManyApplier(<<PatMul, PatShift, PatMulRev>>)
NoneApplier == ManyApplier(<<>>)

PatternScripts ==
    {<<Call("with_pattern", PatMul)>>,
     <<Call("with_pattern", PatAdd)>>,
     <<Call("with_pattern", PatMul), Call("with_pattern", PatMulRev)>>}

ApplierScripts ==
    {<<Call("with_applier", ShiftApplier)>>,
     <<Call("with_applier", CommApplier)>>,
     <<Call("with_applier", Appender)>>,
     <<Call("with_applier", NoneApplier), Call("with_applier", SeveralApplier)>>}

ConditionScripts == {<<>>, <<Call("with_condition", CondPow2)>>}

LimitScripts == {<<>>} \cup {<<Call("with_application_limit", n)>> : n \in LimitArgs}

\* the rule of tests::conditional_rewrite with a second condition, in
\* either order
TwoConditionScripts ==
    {<<Call("with_pattern", PatMul), Call("with_applier", ShiftApplier),
       Call("with_condition", cs[1]), Call("with_condition", cs[2])>> :
        cs \in {pr \in ConditionArgs \X ConditionArgs : pr[1] # pr[2]}}

RuleScripts ==
    {p \o a \o c \o l : p \in PatternScripts, a \in ApplierScripts,
                        c \in ConditionScripts, l \in LimitScripts}
    \cup TwoConditionScripts


(***************************************************************************)
(* State.                                                                  *)
(***************************************************************************)
VARIABLES
    builder,        \* the RewriteBuilder under construction
    history,        \* the builder calls made so far, in order
    built,          \* outcome of build(): None before the call
    rewrite,        \* the Rewrite the driver runs (None while building)
    egraph,         \* the graph
    matches,        \* the match snapshot of the last search
    snapshot,       \* the graph that search was run on
    searched,       \* a snapshot has been taken
    pc,             \* position of Rewrite::apply: idle, cond, applier, result, return
    mi, pi, ci, ai, ri,   \* apply's loop indices: match, mapping, condition, applier, result
    results,        \* the ids the current applier returned
    applications,   \* apply's accumulator
    warnings,       \* warn! emissions of the current call
    returns,        \* the values apply has returned, one per completed call
    calls,          \* apply calls started
    learned,        \* facts the driver has added
    unions,         \* egraph.union calls of the current call
    pre,            \* the graph when the current call started
    trace,          \* the events of the current call: checks, applier calls, results
    snapCalls,      \* apply calls started on the current snapshot
    touched,        \* the driver changed the graph since the last apply returned
    resumed,        \* the current call re-applies its snapshot to the graph the
                    \* previous call on that snapshot left
    materialised    \* every side a condition check has instantiated so far, in
                    \* any call: the pattern, the mapping and the id it got

builderVars == <<builder, history, built>>
loopVars == <<mi, pi, ci, ai, ri, results>>
callVars == <<applications, warnings, unions, pre, trace, resumed>>
driverVars == <<rewrite, matches, snapshot, searched, returns, calls, learned,
                snapCalls, touched>>
vars == <<builderVars, egraph, pc, loopVars, callVars, driverVars, materialised>>

IdleLoop ==
    /\ mi = 0 /\ pi = 0 /\ ci = 0 /\ ai = 0 /\ ri = 0 /\ results = <<>>

IdleDriver ==
    /\ pc = "idle" /\ IdleLoop
    /\ applications = <<>> /\ warnings = 0 /\ unions = 0 /\ trace = <<>>
    /\ resumed = FALSE
    /\ matches = <<>> /\ snapshot = EmptyGraph /\ searched = FALSE
    /\ returns = <<>> /\ calls = 0
    /\ learned = {} /\ snapCalls = 0 /\ touched = FALSE
    /\ materialised = {}

(***************************************************************************)
(* The builder on its own: SpecBuilder.                                    *)
(***************************************************************************)
InitBuilder ==
    /\ \E name \in BuilderNames : builder = New(name)
    /\ history = <<>>
    /\ built = None
    /\ rewrite = None
    /\ egraph = EmptyGraph
    /\ pre = EmptyGraph
    /\ IdleDriver

Building == built = None /\ Len(history) < MaxBuilderOps

driverFrame ==
    UNCHANGED <<rewrite, egraph, pc, loopVars, callVars, driverVars, materialised>>

WithPattern ==
    /\ Building
    /\ \E p \in PatternArgs :
          /\ builder' = with_pattern(builder, p)
          /\ history' = Append(history, Call("with_pattern", p))
    /\ UNCHANGED built
    /\ driverFrame

WithApplier ==
    /\ Building
    /\ \E a \in ApplierArgs :
          /\ builder' = with_applier(builder, a)
          /\ history' = Append(history, Call("with_applier", a))
    /\ UNCHANGED built
    /\ driverFrame

WithCondition ==
    /\ Building
    /\ \E c \in ConditionArgs :
          /\ builder' = with_condition(builder, c)
          /\ history' = Append(history, Call("with_condition", c))
    /\ UNCHANGED built
    /\ driverFrame

WithApplicationLimit ==
    /\ Building
    /\ \E n \in LimitArgs :
          /\ builder' = with_application_limit(builder, n)
          /\ history' = Append(history, Call("with_application_limit", n))
    /\ UNCHANGED built
    /\ driverFrame

\* build consumes the builder
Build ==
    /\ built = None
    /\ built' = build(builder)
    /\ UNCHANGED <<builder, history>>
    /\ driverFrame

NextBuilder ==
    \/ WithPattern
    \/ WithApplier
    \/ WithCondition
    \/ WithApplicationLimit
    \/ Build

SpecBuilder == InitBuilder /\ [][NextBuilder]_vars

(***************************************************************************)
(* The driver and Rewrite::apply, one step per loop iteration: Spec.       *)
(***************************************************************************)
Init ==
    /\ \E name \in Names, script \in RuleScripts :
          /\ builder = Configure(New(name), script)
          /\ history = script
    /\ built = build(builder)
    /\ rewrite = mk(builder)
    /\ egraph \in InitialGraphs
    /\ pre = egraph
    /\ IdleDriver

builderFrame == UNCHANGED <<builderVars, rewrite>>

\* a loop that stays on the first mapping of the match it has reached
NextMappingPos_Stay(ms, m, p) ==
    IF m > Len(ms) THEN [mi |-> m, pi |-> 0]
    ELSE IF Len(ms[m].mappings) > 0 THEN [mi |-> m, pi |-> 1]
    ELSE [mi |-> m + 1, pi |-> 0]

\* a loop that takes only the first mapping of each match
NextMappingPos_SkipMatch(ms, m, p) ==
    IF m > Len(ms) THEN [mi |-> m, pi |-> 0]
    ELSE IF p = 0 /\ Len(ms[m].mappings) > 0 THEN [mi |-> m, pi |-> 1]
    ELSE IF m + 1 > Len(ms) THEN [mi |-> m + 1, pi |-> 0]
    ELSE [mi |-> m + 1, pi |-> 1]

\* the position of the mapping that follows mapping p of match m
RECURSIVE NextMappingPos(_, _, _)
NextMappingPos(ms, m, p) ==
    IF m > Len(ms) THEN [mi |-> m, pi |-> 0]
    ELSE IF p < Len(ms[m].mappings) THEN [mi |-> m, pi |-> p + 1]
    ELSE NextMappingPos(ms, m + 1, 0)

\* for mapping in &ematch.mappings: move on to the next mapping, or leave
\* the loops when there is none
GotoNextMapping(m, p) ==
    LET pos == NextMappingPos(matches, m, p)
    IN  IF pos.mi > Len(matches)
        THEN /\ pc' = "return"
             /\ mi' = 0 /\ pi' = 0 /\ ci' = 0 /\ ai' = 0 /\ ri' = 0
             /\ results' = <<>>
        ELSE /\ pc' = IF rewrite.conditions = <<>> THEN "applier" ELSE "cond"
             /\ mi' = pos.mi /\ pi' = pos.pi
             /\ ci' = IF rewrite.conditions = <<>> THEN 0 ELSE 1
             /\ ai' = IF rewrite.conditions = <<>> THEN 1 ELSE 0
             /\ ri' = 0
             /\ results' = <<>>

\* for applier in &self.appliers: move on to the next applier, or to the
\* next mapping after the last
GotoNextApplier ==
    IF ai < Len(rewrite.appliers)
    THEN /\ pc' = "applier"
         /\ ai' = ai + 1
         /\ ri' = 0
         /\ results' = <<>>
         /\ UNCHANGED <<mi, pi, ci>>
    ELSE GotoNextMapping(mi, pi)

ematch == matches[mi]

mapping == matches[mi].mappings[pi]

\* if applied_root.id != ematch.eclass
learned_something(id, eclass) == id # eclass

\* a union of the applier's result with itself
apply_union_Self(g, eclass, id, keepFirst) == Union(g, id, id, keepFirst)

\* a union whose result is dropped: the applier's own id is pushed
apply_union_PushRoot(g, eclass, id, keepFirst) ==
    [egraph |-> Union(g, eclass, id, keepFirst).egraph, id |-> id]

\* a union that moves the match's id alone and leaves its class behind
apply_union_Relink(g, eclass, id, keepFirst) ==
    [egraph |-> [g EXCEPT !.leader[eclass] = Find(g, id)], id |-> Find(g, id)]

\* let leader = egraph.union(ematch.eclass, applied_root.id)
apply_union(g, eclass, id, keepFirst) == Union(g, eclass, id, keepFirst)

\* a limit check with its operands swapped
exceeded_Reversed(apps, limit) == limit > Len(apps)

\* a loop body without the limit check
exceeded_Never(apps, limit) == FALSE

\* a limit check with >= in place of >
exceeded_AtLimit(apps, limit) == Len(apps) >= limit

\* if applications.len() > self.application_limit
exceeded(apps, limit) == Len(apps) > limit

\* Rewrite::search, as the driver calls it
DoSearch ==
    /\ pc = "idle"
    /\ calls < MaxApplyCalls
    /\ matches' = search(rewrite.patterns, egraph)
    /\ snapshot' = egraph
    /\ searched' = TRUE
    /\ snapCalls' = 0
    /\ UNCHANGED <<egraph, pc, loopVars, callVars, returns, calls, learned, touched>>
    /\ UNCHANGED materialised
    /\ builderFrame

\* Rewrite::apply is entered: let mut applications = Vec::new()
apply_start ==
    /\ pc = "idle"
    /\ searched
    /\ calls < MaxApplyCalls
    /\ calls' = calls + 1
    /\ snapCalls' = snapCalls + 1
    /\ resumed' = (snapCalls >= 1 /\ ~touched)
    /\ applications' = <<>>
    /\ warnings' = 0
    /\ unions' = 0
    /\ trace' = <<>>
    /\ pre' = egraph
    /\ GotoNextMapping(1, 0)
    /\ UNCHANGED <<egraph, matches, snapshot, searched, returns, learned, touched>>
    /\ UNCHANGED materialised
    /\ builderFrame

\* an all() that goes on to the next condition after a failed one
all_step_NoShortCircuit(ok, i, n) ==
    IF i < n THEN "more"
    ELSE IF ok THEN "pass"
    ELSE "skip"

\* Iterator::all over the conditions: what follows the check of condition i
\* of n: the mapping is skipped, the next condition is checked, or the
\* mapping has passed
all_step(ok, i, n) ==
    IF ~ok THEN "skip"
    ELSE IF i < n THEN "more"
    ELSE "pass"

\* self.conditions.iter().all(|c| c.check(egraph, mapping)), one condition
apply_condition ==
    /\ pc = "cond"
    /\ \E r \in {check(rewrite.conditions[ci], egraph, mapping)} :
       LET step == all_step(r.ok, ci, Len(rewrite.conditions))
       IN  /\ egraph' = r.egraph
           /\ trace' = Append(trace,
                 [kind |-> "check", mi |-> mi, pi |-> pi, ci |-> ci, ok |-> r.ok,
                  lhs_id |-> r.lhs_id, rhs_id |-> r.rhs_id])
           /\ materialised' = materialised \cup
                 {[term |-> rewrite.conditions[ci].lhs, mapping |-> mapping,
                   id |-> r.lhs_id],
                  [term |-> rewrite.conditions[ci].rhs, mapping |-> mapping,
                   id |-> r.rhs_id]}
           /\ IF step = "skip" THEN GotoNextMapping(mi, pi)
              ELSE IF step = "more"
              THEN /\ ci' = ci + 1
                   /\ UNCHANGED <<pc, mi, pi, ai, ri, results>>
              ELSE /\ pc' = "applier"
                   /\ ci' = 0
                   /\ ai' = 1
                   /\ UNCHANGED <<mi, pi, ri, results>>
    /\ UNCHANGED <<applications, warnings, unions, pre, resumed, driverVars>>
    /\ UNCHANGED builderVars

\* applier.apply(egraph, mapping)
apply_applier ==
    /\ pc = "applier"
    /\ \E r \in {ApplierApply(rewrite.appliers[ai], egraph, mapping)} :
           /\ egraph' = r.egraph
           /\ trace' = Append(trace,
                 [kind |-> "applier", mi |-> mi, pi |-> pi, ai |-> ai,
                  results |-> r.results])
           /\ IF r.results = <<>> THEN GotoNextApplier
              ELSE /\ pc' = "result"
                   /\ results' = r.results
                   /\ ri' = 1
                   /\ UNCHANGED <<mi, pi, ci, ai>>
    /\ UNCHANGED <<applications, warnings, unions, pre, resumed, driverVars>>
    /\ UNCHANGED <<builderVars, materialised>>

\* the body of the innermost loop for one applied_root (rewrite.rs 150-164)
apply_result ==
    /\ pc = "result"
    /\ \E keepFirst \in BOOLEAN :
        LET id == results[ri]
            differs == learned_something(id, ematch.eclass)
            u == apply_union(egraph, ematch.eclass, id, keepFirst)
            applied == IF differs THEN Append(applications, u.id) ELSE applications
        IN  /\ egraph' = IF differs THEN u.egraph ELSE egraph
            /\ applications' = applied
            /\ unions' = IF differs THEN unions + 1 ELSE unions
            /\ trace' = Append(trace,
                  [kind |-> "result", mi |-> mi, pi |-> pi, ai |-> ai, ri |-> ri,
                   id |-> id, eclass |-> ematch.eclass, pushed |-> differs,
                   equivBefore |-> Equiv(egraph, id, ematch.eclass),
                   leader |-> u.id])
            /\ IF exceeded(applied, rewrite.application_limit)
               THEN /\ warnings' = warnings + 1
                    /\ pc' = "return"
                    /\ mi' = 0 /\ pi' = 0 /\ ci' = 0 /\ ai' = 0 /\ ri' = 0
                    /\ results' = <<>>
               ELSE /\ UNCHANGED warnings
                    /\ IF ri < Len(results)
                       THEN /\ ri' = ri + 1
                            /\ UNCHANGED <<pc, mi, pi, ci, ai, results>>
                       ELSE GotoNextApplier
    /\ UNCHANGED <<pre, resumed, driverVars>>
    /\ UNCHANGED <<builderVars, materialised>>

\* apply returns its accumulator
apply_return ==
    /\ pc = "return"
    /\ pc' = "idle"
    /\ returns' = Append(returns, applications)
    /\ touched' = FALSE
    /\ UNCHANGED <<egraph, loopVars, callVars>>
    /\ UNCHANGED <<rewrite, matches, snapshot, searched, calls, learned, snapCalls>>
    /\ UNCHANGED <<builderVars, materialised>>

\* the driver teaches the graph an equality: add both terms, union them
AddFact ==
    /\ pc = "idle"
    /\ \E fact \in Facts \ learned, keepFirst \in BOOLEAN :
        LET g == add_exprs(egraph, <<fact[1], fact[2]>>)
            a == subst_and_find(g, fact[1], EmptyMapping).id
            b == subst_and_find(g, fact[2], EmptyMapping).id
        IN  /\ egraph' = Union(g, a, b, keepFirst).egraph
            /\ learned' = learned \cup {fact}
    /\ touched' = TRUE
    /\ UNCHANGED <<pc, loopVars, callVars>>
    /\ UNCHANGED <<rewrite, matches, snapshot, searched, returns, calls, snapCalls>>
    /\ UNCHANGED <<builderVars, materialised>>

\* egraph.rebuild(), called by the driver between rounds
DoRebuild ==
    /\ pc = "idle"
    /\ egraph' = Rebuild(egraph)
    /\ touched' = (touched \/ egraph' # egraph)
    /\ UNCHANGED <<pc, loopVars, callVars>>
    /\ UNCHANGED <<rewrite, matches, snapshot, searched, returns, calls, learned,
                   snapCalls>>
    /\ UNCHANGED <<builderVars, materialised>>

Next ==
    \/ DoSearch
    \/ apply_start
    \/ apply_condition
    \/ apply_applier
    \/ apply_result
    \/ apply_return
    \/ AddFact
    \/ DoRebuild

Spec == Init /\ [][Next]_vars

\* a step of a running apply call
ApplyStep ==
    \/ apply_condition
    \/ apply_applier
    \/ apply_result
    \/ apply_return

\* apply is synchronous: once entered, its next step is always taken
SpecLive == Spec /\ WF_vars(ApplyStep)

(***************************************************************************)
(* Properties.                                                             *)
(***************************************************************************)
ResultEvents == SelectSeq(trace, LAMBDA e : e.kind = "result")

CheckEvents == SelectSeq(trace, LAMBDA e : e.kind = "check")

ApplierEvents == SelectSeq(trace, LAMBDA e : e.kind = "applier")

InSeq(sq) == {sq[i] : i \in 1..Len(sq)}

Last(sq) == sq[Len(sq)]

\* C1: build on a builder with zero patterns or zero appliers returns an
\* InvalidRewrite error value to the caller (it does not abort), and on any
\* other builder it returns a Rewrite.
C1_BuildReturnsResult ==
    built # None =>
        IF Len(builder.patterns) = 0 \/ Len(builder.appliers) = 0
        THEN built.tag = "Err"
        ELSE built.tag = "Ok"


Limit == rewrite.application_limit

\* the call is over: apply has left its loops, or has returned
CallOver == pc \in {"return", "idle"}

\* C2: an apply call never accumulates more than application_limit + 1 ids;
\* every accumulated id is one union; the call that reaches
\* application_limit + 1 ids warns exactly once and stops there, whatever
\* matches, mappings, appliers and result ids remain.
C2_LimitEnforced ==
    /\ Len(applications) <= Limit + 1
    /\ unions = Len(applications)
    /\ \A k \in 1..Len(returns) : Len(returns[k]) <= Limit + 1
    /\ warnings <= 1
    /\ warnings = 1 =>
          /\ CallOver
          /\ Len(applications) = Limit + 1
          /\ unions = Limit + 1
    /\ Len(applications) = Limit + 1 => (warnings = 1 /\ CallOver)

\* C2 witness: the limit stopped a call while a result id of the current
\* applier, and three whole matches after the current one, were still
\* unprocessed (each of them holds further ids to union).
C2_Witness ==
    /\ pc = "return"
    /\ warnings = 1
    /\ Len(applications) = Limit + 1
    /\ LET e == Last(ResultEvents)
           inv == Last(ApplierEvents)
       IN  /\ e.ri < Len(inv.results)
           /\ e.mi + 3 <= Len(matches)

RECURSIVE AllPositions(_, _, _)
AllPositions(ms, m, p) ==
    IF m > Len(ms) THEN <<>>
    ELSE IF p > Len(ms[m].mappings) THEN AllPositions(ms, m + 1, 1)
    ELSE <<<<m, p>>>> \o AllPositions(ms, m, p + 1)

RECURSIVE PushedLeaders(_)
PushedLeaders(evs) ==
    IF evs = <<>> THEN <<>>
    ELSE (IF Head(evs).id # Head(evs).eclass THEN <<Head(evs).leader>> ELSE <<>>)
         \o PushedLeaders(Tail(evs))

\* a rule with no conditions and a single applier that returns one id per mapping
SimpleRule ==
    /\ rewrite.conditions = <<>>
    /\ Len(rewrite.appliers) = 1
    /\ rewrite.appliers[1].kind \in {"pattern", "appender"}

\* C3 as claimed: for a simple rule whose applier result always differs from
\* the matched class id, apply returns exactly one id per match (read for
\* calls the limit did not stop).
C3_OnePerMatch ==
    (/\ pc = "return"
     /\ SimpleRule
     /\ warnings = 0
     /\ \A e \in InSeq(ResultEvents) : e.id # e.eclass)
    => Len(applications) = Len(matches)

\* C3 amended: for a simple rule, a call the limit did not stop processes
\* one result id for every mapping of every match, in order, and returns
\* the union's leader for each mapping whose result id differs from the
\* match's class id and nothing for a mapping whose result id equals it.
C3_OnePerMapping ==
    (/\ pc = "return"
     /\ SimpleRule
     /\ warnings = 0)
    => /\ [k \in 1..Len(ResultEvents) |->
              <<ResultEvents[k].mi, ResultEvents[k].pi>>] = AllPositions(matches, 1, 1)
       /\ applications = PushedLeaders(ResultEvents)
       /\ unions = Len(applications)

\* C3 witness: a match with two mappings contributed two ids.
C3_Witness ==
    /\ pc = "return"
    /\ SimpleRule
    /\ warnings = 0
    /\ Len(matches) = 1
    /\ Len(matches[1].mappings) = 2
    /\ Len(applications) = 2

\* C4: a second apply on the same snapshot and on the graph the first call
\* left, in which every applier output is already in the class of its
\* match's class id, performs no union and returns the empty list.
C4_ReapplicationReturnsEmpty ==
    (/\ pc = "return"
     /\ resumed
     /\ \A e \in InSeq(ResultEvents) : e.equivBefore)
    => (unions = 0 /\ applications = <<>>)


OneCondition == Len(rewrite.conditions) = 1

\* the call runs on a fresh search of the graph it started on
FreshSearch == snapCalls = 1 /\ pre = snapshot

\* C5: for a rule with one condition, a call in which the condition's two
\* sides instantiate to different classes under every mapping invokes no
\* applier and returns the empty list; a search followed by apply in which
\* the single match's mapping instantiates them to the same class (the
\* driver has unioned them) returns exactly the leader of the matched class,
\* both when the applier's term is not yet in the matched class and when
\* every earlier run of the rule returned the empty list.
C5_ConditionalFiring ==
    (pc = "return" /\ OneCondition) =>
        /\ (\A e \in InSeq(CheckEvents) : e.lhs_id # e.rhs_id)
              => (applications = <<>> /\ unions = 0 /\ ApplierEvents = <<>>)
        /\ (/\ FreshSearch
            /\ Len(matches) = 1
            /\ Len(matches[1].mappings) = 1
            /\ Len(rewrite.appliers) = 1
            /\ \A e \in InSeq(CheckEvents) : e.lhs_id = e.rhs_id
            /\ \E id \in Ids(egraph) :
                  /\ id # matches[1].eclass
                  /\ ApplierEvents = <<[kind |-> "applier", mi |-> 1, pi |-> 1,
                                        ai |-> 1, results |-> <<id>>]>>)
              => applications = <<Find(egraph, matches[1].eclass)>>
        /\ (/\ FreshSearch
            /\ returns # <<>>
            /\ \A k \in 1..Len(returns) : returns[k] = <<>>
            /\ Len(matches) = 1
            /\ Len(matches[1].mappings) = 1
            /\ Len(rewrite.appliers) = 1
            /\ \A e \in InSeq(CheckEvents) : e.lhs_id = e.rhs_id)
              => applications = <<Find(egraph, matches[1].eclass)>>

\* C5 witness: tests::conditional_rewrite: the first run returned nothing, the
\* driver added the fact and rebuilt, and the second run fires on (* x 2).
C5_Witness ==
    /\ pc = "return"
    /\ OneCondition
    /\ rewrite.appliers = <<ShiftApplier>>
    /\ returns = <<<<>>>>
    /\ learned # {}
    /\ FreshSearch
    /\ pre = Rebuild(pre)
    /\ matches = <<[eclass |-> 3, mappings |-> <<[v \in {"?a", "?b"} |->
                                                    IF v = "?a" THEN 1 ELSE 2]>>]>>
    /\ applications = <<Find(egraph, 3)>>

\* a mapping passed the rule's conditions in this call
Passed(m, p) ==
    Len(SelectSeq(CheckEvents,
                  LAMBDA e : e.mi = m /\ e.pi = p /\ e.lhs_id = e.rhs_id))
        = Len(rewrite.conditions)

\* C6: when apply has left its loops without hitting the limit, every mapping
\* that passed the conditions has had every applier invoked and every
\* returned id processed, and every processed id is in the same class as
\* its match's class id.
C6_ResultsJoinMatchedClass ==
    (pc = "return" /\ warnings = 0) =>
        /\ \A e \in InSeq(ResultEvents) : Equiv(egraph, e.id, e.eclass)
        /\ \A m \in 1..Len(matches) : \A p \in 1..Len(matches[m].mappings) :
              Passed(m, p) =>
                 \A a \in 1..Len(rewrite.appliers) :
                    \E inv \in InSeq(ApplierEvents) :
                       /\ inv.mi = m /\ inv.pi = p /\ inv.ai = a
                       /\ \A k \in 1..Len(inv.results) :
                             \E e \in InSeq(ResultEvents) :
                                /\ e.mi = m /\ e.pi = p /\ e.ai = a /\ e.ri = k
                                /\ e.id = inv.results[k]
                                /\ e.eclass = matches[m].eclass

\* C6 witness: tests::fn_rewrite: after one apply of (+ ?a ?b) with the
\* Appender, the root of (+ x y) and the new term "xy" are equivalent.
C6_Witness ==
    /\ pc = "return"
    /\ warnings = 0
    /\ pre = GraphFn
    /\ rewrite.patterns = <<PatAdd>>
    /\ rewrite.appliers = <<Appender>>
    /\ \E id \in Ids(egraph) \ Ids(pre) :
          /\ egraph.nodes[id] = Leaf("xy")
          /\ Equiv(egraph, 3, id)

\* C7 as claimed: every id of the list apply returns is the canonical id of
\* its class in the graph as it stands when apply returns.
C7_ReturnedIdsCanonical ==
    pc = "return" =>
        \A k \in 1..Len(applications) : Find(egraph, applications[k]) = applications[k]

\* C7 amended: every id apply appends is, at the moment it is appended, the
\* canonical id of the class that now holds the match's class id; in every
\* later state of the call it is still in that class, though a later union
\* may have given the class another leader.
C7_LeaderWhenAppended ==
    /\ [][Len(applications') > Len(applications) =>
            /\ applications' = Append(applications, Find(egraph', matches[mi].eclass))
            /\ Find(egraph', Last(applications')) = Last(applications')]_vars
    /\ [](\A k \in 1..Len(PushedLeaders(ResultEvents)) :
            /\ k <= Len(applications)
            /\ Equiv(egraph, applications[k],
                     SelectSeq(ResultEvents, LAMBDA e : e.id # e.eclass)[k].eclass))

\* C7 witness: a returned id that a later union of the same call demoted.
C7_Witness ==
    /\ pc = "return"
    /\ \E k \in 1..Len(applications) : Find(egraph, applications[k]) # applications[k]

\* C8: during and after an apply call every id of the graph the call started
\* on is still an id of the graph, and every two ids that were equivalent
\* then are equivalent now.
C8_Monotone ==
    /\ Ids(pre) \subseteq Ids(egraph)
    /\ \A a \in Ids(pre) : \A b \in Ids(pre) :
          Equiv(pre, a, b) => Equiv(egraph, a, b)

\* C8 witness: in the middle of a call that has added terms and unions to a
\* graph holding a class of two ids.
C8_Witness ==
    /\ pc = "result"
    /\ unions >= 1
    /\ Len(egraph.nodes) > Len(pre.nodes)
    /\ \E a \in Ids(pre) : \E b \in Ids(pre) : a # b /\ Equiv(pre, a, b)


LimitCalls == SelectSeq(history, LAMBDA c : c.op = "with_application_limit")

\* C9 as claimed: the application_limit of every built Rewrite is positive.
C9_LimitPositive ==
    built.tag = "Ok" => built.value.application_limit > 0

\* C9 amended: the application_limit of every built Rewrite is a natural
\* number, and it is 0 exactly when the last with_application_limit call on
\* the builder passed 0; otherwise it is positive.
C9_LimitZeroOnlyIfGiven ==
    built.tag = "Ok" =>
        /\ built.value.application_limit \in Nat
        /\ built.value.application_limit = 0
              <=> (LimitCalls # <<>> /\ Last(LimitCalls).arg = 0)

\* C9 witness: a Rewrite built after with_application_limit(0).
C9_Witness ==
    /\ built.tag = "Ok"
    /\ LimitCalls # <<>>
    /\ built.value.application_limit = 0

\* the number of matches in the first k of the per-pattern results hs
RECURSIVE LenSum(_, _)
LenSum(hs, k) == IF k = 0 THEN 0 ELSE LenSum(hs, k - 1) + Len(hs[k])

\* each pattern's own search results on graph g, one entry per pattern
RECURSIVE PatternHits(_, _)
PatternHits(patterns, g) ==
    IF patterns = <<>> THEN <<>>
    ELSE <<Search(Head(patterns), g)>> \o PatternHits(Tail(patterns), g)

\* C10: in the state search returns in, the snapshot holds, for each pattern
\* in list order, all of that pattern's own matches in that pattern's order,
\* and nothing else: a class matched by two patterns appears once for each.
C10_SearchConcatenates ==
    (searched /\ snapCalls = 0) =>
        LET hits == PatternHits(rewrite.patterns, snapshot)
        IN  /\ Len(matches) = LenSum(hits, Len(rewrite.patterns))
            /\ \A k \in 1..Len(rewrite.patterns) :
                  \A j \in 1..Len(hits[k]) :
                     matches[LenSum(hits, k - 1) + j] = hits[k][j]

\* C10 witness: two patterns of the rule matched the same class, which is
\* in the snapshot twice.
C10_Witness ==
    /\ searched
    /\ snapCalls = 0
    /\ Len(rewrite.patterns) = 2
    /\ \E i \in 1..Len(matches) : \E j \in 1..Len(matches) :
          i < j /\ matches[i].eclass = matches[j].eclass

\* the arguments of the builder calls of one operation, in call order
ArgsOf(op) ==
    LET cs == SelectSeq(history, LAMBDA c : c.op = op)
    IN  [k \in 1..Len(cs) |-> cs[k].arg]

FieldOf(op) ==
    CASE op = "with_pattern" -> "patterns"
      [] op = "with_applier" -> "appliers"
      [] op = "with_condition" -> "conditions"
      [] op = "with_application_limit" -> "application_limit"

\* C11: a successfully built Rewrite holds the patterns, the appliers and the
\* conditions in the order the builder calls added them, the name the builder
\* was constructed with, and the value of the last with_application_limit
\* call, or 10,000 when there was none; every fluent operation leaves every
\* field but its own as it was, and the name is never changed.
C11_BuilderPreserves ==
    /\ [](built.tag = "Ok" =>
            built.value = [name |-> builder.name,
                           patterns |-> ArgsOf("with_pattern"),
                           appliers |-> ArgsOf("with_applier"),
                           conditions |-> ArgsOf("with_condition"),
                           application_limit |->
                               IF LimitCalls = <<>> THEN DefaultLimit
                               ELSE Last(LimitCalls).arg])
    /\ [][/\ builder'.name = builder.name
          /\ Len(history') > Len(history) =>
                \A f \in DOMAIN builder \ {FieldOf(Last(history').op)} :
                    builder'[f] = builder[f]]_vars

\* C11 witness: a Rewrite built from two different patterns, one applier and
\* an overridden limit, under the second of the names.
C11_Witness ==
    /\ built.tag = "Ok"
    /\ built.value.name = "fold_add"
    /\ Len(built.value.patterns) = 2
    /\ built.value.patterns[1] # built.value.patterns[2]
    /\ LimitCalls # <<>>
    /\ built.value.application_limit = 1

\* the accumulator is longer than the rule's limit
OverLimit == Len(applications) > Limit

\* C12: once the accumulator is longer than application_limit the call is
\* over: the append that made it so is the last thing the call did to the
\* graph, and from there the call only returns, with no condition check, no
\* applier invocation and no union in between, and what it returns is the
\* accumulator as it stood.
C12_EarlyExit ==
    /\ [](OverLimit =>
            /\ CallOver
            /\ trace # <<>>
            /\ Last(trace).kind = "result"
            /\ Last(trace).pushed
            /\ pc = "idle" => Last(returns) = applications)
    /\ [][(OverLimit /\ pc = "return") =>
            /\ pc' = "idle"
            /\ trace' = trace
            /\ egraph' = egraph
            /\ unions' = unions
            /\ returns' = Append(returns, applications)]_vars

\* C12 witness: a call of a conditional rule has returned over the limit
\* after one condition check, with a further match left unprocessed.
C12_Witness ==
    /\ pc = "idle"
    /\ OverLimit
    /\ rewrite.conditions # <<>>
    /\ Last(returns) = applications
    /\ Last(trace).mi < Len(matches)
    /\ Len(CheckEvents) = 1

\* C13: the limit check fires (warning, exit) only in a loop iteration that
\* has just appended to the accumulator: an iteration whose result id equals
\* the match's class id appends nothing and never fires it, and it never
\* fires while the accumulator is empty.
C13_TriggerOnlyAfterAppend ==
    /\ [][warnings' > warnings =>
            /\ pc = "result"
            /\ results[ri] # matches[mi].eclass
            /\ Len(applications') = Len(applications) + 1
            /\ Last(trace').kind = "result"
            /\ Last(trace').pushed]_vars
    /\ [][(pc = "result" /\ results[ri] = matches[mi].eclass) =>
            /\ warnings' = warnings
            /\ applications' = applications
            /\ unions' = unions]_vars
    /\ [](warnings > 0 => applications # <<>>)

\* C13 witness: under limit 0 a call processed a result id equal to its
\* match's class id without stopping, and stopped at the append that followed.
C13_Witness ==
    /\ pc = "return"
    /\ Limit = 0
    /\ warnings = 1
    /\ Len(ResultEvents) = 2
    /\ ~ResultEvents[1].pushed
    /\ ResultEvents[2].pushed

\* C14: every union apply performs joins two ids that were in different
\* classes at that moment, so every id it appends records new information,
\* also when an earlier union of the same call has merged the match's class.
C14_NoVacuousUnion ==
    \A e \in InSeq(ResultEvents) : e.pushed => ~e.equivBefore

\* the commutativity rule with both orientations as patterns, run once on
\* the graph with separate classes for (* x 2) and (* 2 x)
CommBothWays ==
    /\ rewrite.patterns = <<PatMul, PatMulRev>>
    /\ rewrite.appliers = <<CommApplier>>
    /\ rewrite.conditions = <<>>
    /\ Limit = DefaultLimit
    /\ pre = GraphTwoMul
    /\ FreshSearch

\* whichever root each union keeps, that single call records a union of two
\* ids that were already equivalent
C14_VacuousWhateverLeader ==
    (pc = "return" /\ CommBothWays) =>
        \E e \in InSeq(ResultEvents) : e.pushed /\ e.equivBefore

C14_VacuousReached ==
    pc = "return" /\ CommBothWays /\ Len(applications) = 2 /\ unions = 2

\* the mappings of this call on which a condition has failed
FailedMappings ==
    {<<e.mi, e.pi>> : e \in {c \in InSeq(CheckEvents) : c.lhs_id # c.rhs_id}}

\* the operators a pattern can insert
RECURSIVE PatOps(_)
RECURSIVE PatsOps(_)
PatOps(p) == IF IsWild(p) THEN {} ELSE {p.op} \cup PatsOps(p.children)

PatsOps(ps) == IF ps = <<>> THEN {} ELSE PatOps(Head(ps)) \cup PatsOps(Tail(ps))

\* graph h is graph g with fresh classes appended, every one of them a node
\* with an operator of ops
Inserted(g, h, ops) ==
    /\ Len(h.nodes) >= Len(g.nodes)
    /\ \A i \in Ids(g) : h.nodes[i] = g.nodes[i] /\ h.leader[i] = g.leader[i]
    /\ \A i \in Ids(h) \ Ids(g) : h.leader[i] = i /\ h.nodes[i].op \in ops

\* C15: for a mapping on which a condition has compared two different ids,
\* the call invokes no applier and processes no result id; all it does for
\* that mapping is check conditions, and a check performs no union and
\* appends nothing: it leaves the graph as it was but for fresh classes
\* holding nodes of the condition's two instantiated sides.
C15_FailedMappingFrame ==
    /\ [](\A e \in InSeq(ApplierEvents) \cup InSeq(ResultEvents) :
              <<e.mi, e.pi>> \notin FailedMappings)
    /\ [](pc \in {"applier", "result"} => <<mi, pi>> \notin FailedMappings)
    /\ [][pc = "cond" =>
            /\ Inserted(egraph, egraph',
                        PatOps(rewrite.conditions[ci].lhs)
                            \cup PatOps(rewrite.conditions[ci].rhs))
            /\ unions' = unions
            /\ applications' = applications
            /\ Len(trace') = Len(trace) + 1
            /\ Last(trace').kind = "check"]_vars

\* C15 witness: the first condition of a mapping passed and the second
\* failed; the call has ended with the failed check's term added to the
\* graph and nothing else done.
C15_Witness ==
    /\ pc = "return"
    /\ Len(rewrite.conditions) = 2
    /\ Len(CheckEvents) = 2
    /\ CheckEvents[1].lhs_id = CheckEvents[1].rhs_id
    /\ CheckEvents[2].lhs_id # CheckEvents[2].rhs_id
    /\ Len(trace) = 2
    /\ Len(egraph.nodes) > Len(pre.nodes)
    /\ unions = 0

\* the checks this call has made for mapping p of match m, in order
ChecksOf(m, p) == SelectSeq(CheckEvents, LAMBDA e : e.mi = m /\ e.pi = p)

\* the term pattern p instantiates to under mp is in graph g already
Present(g, p, mp) == subst_and_find(g, p, mp).egraph = g

\* C16: for every mapping the conditions are checked in list order, each at
\* most once, and none after one that failed; a mapping handed to the
\* appliers has passed all of them. The check of a condition leaves both of
\* its instantiated sides in the graph and inserts no side of a later
\* condition, so after the first failing condition the terms of the later
\* ones are in the graph only if they were there before.
C16_ListOrderShortCircuit ==
    /\ [](\A m \in 1..Len(matches) : \A p \in 1..Len(matches[m].mappings) :
            LET cs == ChecksOf(m, p)
            IN  /\ Len(cs) <= Len(rewrite.conditions)
                /\ \A k \in 1..Len(cs) : cs[k].ci = k
                /\ \A k \in 1..(Len(cs) - 1) : cs[k].lhs_id = cs[k].rhs_id
                /\ (\E e \in InSeq(ApplierEvents) : e.mi = m /\ e.pi = p)
                      => /\ Len(cs) = Len(rewrite.conditions)
                         /\ \A k \in 1..Len(cs) : cs[k].lhs_id = cs[k].rhs_id
                /\ (pc = "cond" /\ mi = m /\ pi = p) => Len(cs) = ci - 1)
    /\ [][pc = "cond" =>
            /\ Present(egraph', rewrite.conditions[ci].lhs, mapping)
            /\ Present(egraph', rewrite.conditions[ci].rhs, mapping)
            /\ \A j \in (ci + 1)..Len(rewrite.conditions) :
                  /\ Present(egraph', rewrite.conditions[j].lhs, mapping)
                        => Present(egraph, rewrite.conditions[j].lhs, mapping)
                  /\ Present(egraph', rewrite.conditions[j].rhs, mapping)
                        => Present(egraph, rewrite.conditions[j].rhs, mapping)
            /\ Last(trace').lhs_id # Last(trace').rhs_id
                  => (pc' # "cond" \/ <<mi', pi'>> # <<mi, pi>>)]_vars

\* C16 witness: the first of two conditions failed on the only mapping; the
\* call is over, the second was never checked and its term (* 2 x) is still
\* not in the graph, while the first condition's (is-power2 2) now is.
C16_Witness ==
    /\ pc = "return"
    /\ rewrite.conditions = <<CondPow2, CondComm>>
    /\ Len(matches) = 1
    /\ Len(CheckEvents) = 1
    /\ CheckEvents[1].ci = 1
    /\ CheckEvents[1].lhs_id # CheckEvents[1].rhs_id
    /\ Present(egraph, PatIsPow2, matches[1].mappings[1])
    /\ ~Present(pre, PatIsPow2, matches[1].mappings[1])
    /\ ~Present(egraph, PatMulRev, matches[1].mappings[1])

\* the class of id holds the term pattern p instantiates to under mp
RECURSIVE Holds(_, _, _, _)
Holds(g, p, mp, id) ==
    IF IsWild(p) THEN Equiv(g, mp[p.wild], id)
    ELSE \E i \in Ids(g) :
            /\ Equiv(g, i, id)
            /\ g.nodes[i].op = p.op
            /\ Len(g.nodes[i].children) = Len(p.children)
            /\ \A k \in 1..Len(p.children) :
                  Holds(g, p.children[k], mp, g.nodes[i].children[k])

\* C17: every check records an instantiation of its lhs and of its rhs,
\* whatever it returned, and every side a check has instantiated is a term
\* of the graph, in the class of the id the instantiation returned, in every
\* later state: for the rest of that call, after it, through the driver's
\* unions and rebuilds and in later calls.
C17_CheckedTermsStay ==
    /\ snapCalls >= 1 =>
          \A e \in InSeq(CheckEvents) :
             /\ [term |-> rewrite.conditions[e.ci].lhs,
                 mapping |-> matches[e.mi].mappings[e.pi], id |-> e.lhs_id]
                   \in materialised
             /\ [term |-> rewrite.conditions[e.ci].rhs,
                 mapping |-> matches[e.mi].mappings[e.pi], id |-> e.rhs_id]
                   \in materialised
    /\ \A t \in materialised :
          /\ t.id \in Ids(egraph)
          /\ Holds(egraph, t.term, t.mapping, t.id)

\* C17 witness: a check returned false after inserting a term that the
\* searched graph did not hold; the call is over, the driver has since
\* added a fact and rebuilt, and the term is still there.
C17_Witness ==
    /\ pc = "idle"
    /\ snapCalls >= 1
    /\ touched
    /\ learned # {}
    /\ egraph = Rebuild(egraph)
    /\ \E e \in InSeq(CheckEvents) : e.lhs_id # e.rhs_id
    /\ \E t \in materialised :
          /\ ~Present(snapshot, t.term, t.mapping)
          /\ Holds(egraph, t.term, t.mapping, t.id)

\* where the loops of apply stand: match, mapping, conditions before
\* appliers, condition or applier, result id
Pos ==
    <<mi, pi, IF pc = "cond" THEN 0 ELSE 1, IF pc = "cond" THEN ci ELSE ai, ri>>

\* lexicographic order on positions
RECURSIVE LexLess(_, _)
LexLess(a, b) ==
    /\ a # <<>>
    /\ \/ Head(a) < Head(b)
       \/ Head(a) = Head(b) /\ LexLess(Tail(a), Tail(b))

InLoops == pc \in {"cond", "applier", "result"}

\* C18: a call that has been entered returns. Its loops run over the match
\* snapshot it was given and over the rule's lists: none of them changes
\* during the call, the position is always within them, and every step
\* either moves it strictly forward or leaves the loops; the terms and
\* unions the call adds to the graph add nothing to iterate over.
C18_ApplyTerminates ==
    /\ (pc # "idle") ~> (pc = "idle")
    /\ [](InLoops =>
            /\ mi \in 1..Len(matches)
            /\ pi \in 1..Len(matches[mi].mappings)
            /\ pc = "cond" => ci \in 1..Len(rewrite.conditions)
            /\ pc # "cond" => ai \in 1..Len(rewrite.appliers)
            /\ pc = "result" => ri \in 1..Len(results))
    /\ [][InLoops =>
            /\ matches' = matches
            /\ rewrite' = rewrite
            /\ pc' # "idle"
            /\ pc' # "return" => LexLess(Pos, Pos')
            /\ pc' = "result" /\ pc = "result" => results' = results]_vars

\* C18 witness: a call has left its loops after adding terms and unions
\* that give the rule more to match than the snapshot held.
C18_Witness ==
    /\ pc = "return"
    /\ unions >= 1
    /\ warnings = 0
    /\ LET now == search(rewrite.patterns, egraph)
       IN  LenSum([k \in 1..Len(now) |-> now[k].mappings], Len(now))
             > LenSum([k \in 1..Len(matches) |-> matches[k].mappings], Len(matches))


====
